---- MODULE Spec2Model ----
(***************************************************************************)
(* Model of analyze-transcript (src/index.tsx).                            *)
(*                                                                         *)
(* src/index.tsx holds two variants of the React component App:            *)
(*   "manual"  lines  24-217  summarization is started by a button click   *)
(*   "auto"    lines 244-468  summarization is started by a useEffect      *)
(* Both keep the same useState cells; the variant is fixed at start-up.    *)
(* Asynchronous work (FileReader, pdf.js extraction, generateContent,      *)
(* the greeting stream) is kept as records whose phase says whether the    *)
(* callback is still to run.  Strings that the code inspects (trim,        *)
(* toLowerCase, includes, the summary line shape) are sequences of         *)
(* one-character strings.                                                  *)
(*                                                                         *)
(* The summary parser and the agreement matcher are not part of            *)
(* src/index.tsx; they are modelled from sections 4.1, 4.2 and 7 of the    *)
(* specification.                                                          *)
(***************************************************************************)
EXTENDS Integers, Sequences, FiniteSets, TLC

(* ---------------------------------------------------------------------- *)
(* Bounds                                                                 *)
(* ---------------------------------------------------------------------- *)
MaxUploads == 2

MaxRequests == 3

MaxLines == 3

(* ---------------------------------------------------------------------- *)
(* JavaScript values: null, undefined, strings                            *)
(* ---------------------------------------------------------------------- *)
NULL == [k |-> "null"]

UNDEFINED == [k |-> "undefined"]

Str(s) == [k |-> "str", v |-> s]

\* JavaScript truthiness of a string | null | undefined value whose string
\* payload is a character sequence.
Truthy(x) == x.k = "str" /\ x.v # <<>>

\* Truthiness of a message built from a literal (never the empty string).
Shown(x) == x.k = "str"

(* ---------------------------------------------------------------------- *)
(* Character sequences                                                    *)
(* ---------------------------------------------------------------------- *)
UpperLetters == <<"A","B","C","D","E","F","G","H","I","J","K","L","M",
                  "N","O","P","Q","R","S","T","U","V","W","X","Y","Z">>

LowerLetters == <<"a","b","c","d","e","f","g","h","i","j","k","l","m",
                  "n","o","p","q","r","s","t","u","v","w","x","y","z">>

Digits == {"0","1","2","3","4","5","6","7","8","9"}

Range(s) == {s[i] : i \in 1..Len(s)}

IsUpper(c) == c \in Range(UpperLetters)

IsLower(c) == c \in Range(LowerLetters)

IsLetter(c) == IsUpper(c) \/ IsLower(c)

IsDigit(c) == c \in Digits

IsSpace(c) == c \in {" ", "\n", "\t"}

LowerChar(c) ==
    IF IsUpper(c) THEN LowerLetters[CHOOSE i \in 1..26 : UpperLetters[i] = c]
    ELSE c

UpperChar(c) ==
    IF IsLower(c) THEN UpperLetters[CHOOSE i \in 1..26 : LowerLetters[i] = c]
    ELSE c

toLowerCase(s) == [i \in 1..Len(s) |-> LowerChar(s[i])]

toUpperCase(s) == [i \in 1..Len(s) |-> UpperChar(s[i])]

\* String.prototype.trim
trim(s) ==
    LET idx == {i \in 1..Len(s) : ~IsSpace(s[i])}
    IN  IF idx = {} THEN <<>>
        ELSE SubSeq(s, CHOOSE i \in idx : \A j \in idx : i <= j,
                       CHOOSE i \in idx : \A j \in idx : i >= j)

\* String.prototype.includes
includes(s, pat) ==
    \E i \in 1..(Len(s) - Len(pat) + 1) : SubSeq(s, i, i + Len(pat) - 1) = pat

RECURSIVE join(_, _)
\* Array.prototype.join
join(items, sep) ==
    IF items = <<>> THEN <<>>
    ELSE IF Len(items) = 1 THEN items[1]
    ELSE items[1] \o sep \o join(Tail(items), sep)

Transcript == <<"t","r","a","n","s","c","r","i","p","t">>

(* ---------------------------------------------------------------------- *)
(* Files the user can select                                              *)
(* ---------------------------------------------------------------------- *)
PdfType == "application/pdf"

\* pages: one sequence of text items per page; corrupt: getDocument rejects.
TranscriptA ==
    [name |-> "a.pdf", type |-> PdfType, corrupt |-> FALSE,
     pages |-> << << <<"T","r","a","n","s","c","r","i","p","t">>, <<"A">> >> >>]

TranscriptB ==
    [name |-> "b.pdf", type |-> PdfType, corrupt |-> FALSE,
     pages |-> << << <<" ">>, <<"T","R","A","N","S","C","R","I","P","T">> >>,
                  << <<"B">> >> >>]

Memo ==
    [name |-> "memo.pdf", type |-> PdfType, corrupt |-> FALSE,
     pages |-> << << <<"M","e","m","o">> >> >>]

Blank ==
    [name |-> "blank.pdf", type |-> PdfType, corrupt |-> FALSE,
     pages |-> << << <<" ">> >>, << >> >>]

Corrupt ==
    [name |-> "bad.pdf", type |-> PdfType, corrupt |-> TRUE, pages |-> << >>]

Notes ==
    [name |-> "notes.txt", type |-> "text/plain", corrupt |-> FALSE,
     pages |-> << >>]

\* event.target.files?.[0] is undefined when the dialog is cancelled.
NoFile ==
    [name |-> "", type |-> "", corrupt |-> FALSE, pages |-> << >>]

Files == {TranscriptA, TranscriptB, Memo, Blank, Corrupt, Notes, NoFile}

RECURSIVE fullText(_)
\* The page loop of extractTextFromPdf: fullText += pageText + '\n'.
fullText(pages) ==
    IF pages = <<>> THEN <<>>
    ELSE join(pages[1], <<" ">>) \o <<"\n">> \o fullText(Tail(pages))

(* ---------------------------------------------------------------------- *)
(* Summary Parser (specification section 4.1)                             *)
(* ---------------------------------------------------------------------- *)
IsAlnum(c) == IsLetter(c) \/ IsDigit(c)

RECURSIVE split(_, _)
\* The lines of a text: the pieces between occurrences of sep.
split(s, sep) ==
    LET idx == {i \in 1..Len(s) : s[i] = sep}
    IN  IF idx = {} THEN <<s>>
        ELSE LET i == CHOOSE i \in idx : \A j \in idx : i <= j
             IN  <<SubSeq(s, 1, i - 1)>> \o split(SubSeq(s, i + 1, Len(s)), sep)

\* First position at or after p whose character does not satisfy the test
\* (Len(s) + 1 when every remaining character satisfies it).
SkipSpace(s, p) ==
    LET stop == {i \in p..Len(s) : ~IsSpace(s[i])}
    IN  IF stop = {} THEN Len(s) + 1 ELSE CHOOSE i \in stop : \A j \in stop : i <= j

SkipLetters(s, p) ==
    LET stop == {i \in p..Len(s) : ~IsLetter(s[i])}
    IN  IF stop = {} THEN Len(s) + 1 ELSE CHOOSE i \in stop : \A j \in stop : i <= j

SkipAlnum(s, p) ==
    LET stop == {i \in p..Len(s) : ~IsAlnum(s[i])}
    IN  IF stop = {} THEN Len(s) + 1 ELSE CHOOSE i \in stop : \A j \in stop : i <= j

SkipNonSpace(s, p) ==
    LET stop == {i \in p..Len(s) : IsSpace(s[i])}
    IN  IF stop = {} THEN Len(s) + 1 ELSE CHOOSE i \in stop : \A j \in stop : i <= j

\* The recognized grade token of section 4.1: a single uppercase letter
\* optionally followed by + or -; or one of B-D, F, P optionally followed by
\* + or -; or 1-3 digits optionally followed by %.
IsGradeToken(g) ==
    LET n == Len(g)
        sign(c) == c \in {"+", "-"}
    IN  \/ /\ n \in 1..2
           /\ IsUpper(g[1])
           /\ n = 2 => sign(g[2])
        \/ /\ n \in 1..2
           /\ g[1] \in {"B", "C", "D", "F", "P"}
           /\ n = 2 => sign(g[2])
        \/ /\ n \in 1..4
           /\ LET d == IF g[n] = "%" THEN n - 1 ELSE n
              IN  /\ d \in 1..3
                  /\ \A i \in 1..d : IsDigit(g[i])

\* The recognized line shape of section 4.1; <<>> when the line does not
\* match, else the one ParsedCourse of the line.
parseLine(line) ==
    LET n  == Len(line)
        p0 == SkipSpace(line, 1)
        p1 == SkipSpace(line, p0 + 1)
        p2 == SkipLetters(line, p1)
        p3 == SkipSpace(line, p2)
        p4 == SkipAlnum(line, p3)
        p5 == SkipSpace(line, p4)
        p6 == SkipSpace(line, p5 + 1)
        p7 == SkipNonSpace(line, p6)
    IN  IF /\ p0 <= n
           /\ line[p0] \in {"*", "-"}
           /\ (p2 - p1) \in 2..6
           /\ p3 > p2
           /\ (p4 - p3) \in 3..5
           /\ p5 <= n
           /\ line[p5] = ":"
           /\ p7 > p6
           /\ IsGradeToken(SubSeq(line, p6, p7 - 1))
        THEN << [subject |-> SubSeq(line, p1, p2 - 1),
                 number  |-> SubSeq(line, p3, p4 - 1)] >>
        ELSE << >>

RECURSIVE parseLines(_)
parseLines(lines) ==
    IF lines = <<>> THEN <<>>
    ELSE parseLine(lines[1]) \o parseLines(Tail(lines))

\* parsePassedCourses(summary: text) -> sequence<ParsedCourse>
parsePassedCourses(summary) == parseLines(split(summary, "\n"))

(* ---------------------------------------------------------------------- *)
(* Agreement Matcher (specification sections 4.2 and 7)                   *)
(* ---------------------------------------------------------------------- *)
normalize(s) == toUpperCase(trim(s))

\* A comparison of the fields as they are written.
rowMatchesExact(row, course) ==
    /\ row.SndrSubjectCode.k = "str"
    /\ row.SndrCourseNumber.k = "str"
    /\ row.SndrSubjectCode.v = course.subject
    /\ row.SndrCourseNumber.v = course.number

\* A row with a missing subject or number field is skipped (section 7).
rowMatches(row, course) ==
    /\ row.SndrSubjectCode.k = "str"
    /\ row.SndrCourseNumber.k = "str"
    /\ normalize(row.SndrSubjectCode.v) = normalize(course.subject)
    /\ normalize(row.SndrCourseNumber.v) = normalize(course.number)

RECURSIVE rowsFor(_, _)
\* The agreements of the table that match one course, in table order.
rowsFor(course, table) ==
    IF table = <<>> THEN <<>>
    ELSE (IF rowMatches(table[1], course) THEN <<table[1]>> ELSE <<>>)
         \o rowsFor(course, Tail(table))

RECURSIVE matchAgreementsTableMajor(_, _)
\* A join that walks the table in the outer loop: every row once for each
\* parsed course it matches, in table order.
matchAgreementsTableMajor(courses, table) ==
    IF table = <<>> THEN <<>>
    ELSE [i \in 1..Cardinality({j \in 1..Len(courses) :
                                     rowMatches(table[1], courses[j])})
            |-> table[1]]
         \o matchAgreementsTableMajor(courses, Tail(table))

RECURSIVE matchAgreements(_, _)
\* matchAgreements(courses, table): parsed courses in their given order,
\* for each every matching agreement in table order.
matchAgreements(courses, table) ==
    IF courses = <<>> THEN <<>>
    ELSE rowsFor(courses[1], table) \o matchAgreements(Tail(courses), table)

Uncomputed == [kind |-> "Uncomputed"]

Blocked == [kind |-> "Blocked"]

Computed(rows) == [kind |-> "Computed", rows |-> rows]

\* A matcher that joins against whatever table it holds, also when the load
\* failed.
MatchingResultJoinsFailedTable(summary, loadState, table) ==
    IF ~Truthy(summary) THEN Uncomputed
    ELSE IF loadState = "loading" THEN Uncomputed
    ELSE Computed(matchAgreements(parsePassedCourses(summary.v), table))

\* A matcher that joins as soon as the summary is there, also while the table
\* is still loading.
MatchingResultJoinsWhileLoading(summary, loadState, table) ==
    IF ~Truthy(summary) THEN Uncomputed
    ELSE IF loadState = "failed" THEN Blocked
    ELSE Computed(matchAgreements(parsePassedCourses(summary.v), table))

\* A matcher that reports nothing computed when there is no course to match.
MatchingResultNoCoursesUncomputed(summary, loadState, table) ==
    IF ~Truthy(summary) THEN Uncomputed
    ELSE IF loadState = "failed" THEN Blocked
    ELSE IF loadState = "loading" THEN Uncomputed
    ELSE IF parsePassedCourses(summary.v) = <<>> THEN Uncomputed
    ELSE Computed(matchAgreements(parsePassedCourses(summary.v), table))

\* The state machine of the matching result (section 4.2) as a function of
\* the two inputs of the core.
MatchingResult(summary, loadState, table) ==
    IF ~Truthy(summary) THEN Uncomputed
    ELSE IF loadState = "failed" THEN Blocked
    ELSE IF loadState = "loading" THEN Uncomputed
    ELSE Computed(matchAgreements(parsePassedCourses(summary.v), table))

(* ---------------------------------------------------------------------- *)
(* Reference data and service responses                                   *)
(* ---------------------------------------------------------------------- *)
MathRow ==
    [Id |-> 1, SndrSubjectCode |-> Str(<<"M","A","T","H">>),
     SndrCourseNumber |-> Str(<<"1","0","1">>)]

EnglRow ==
    [Id |-> 2, SndrSubjectCode |-> Str(<<"E","N","G","L">>),
     SndrCourseNumber |-> Str(<<"2","X","X">>)]

\* Same sender course as EnglRow, other receiver; subject with padding and
\* lower case.
EnglRowPadded ==
    [Id |-> 3, SndrSubjectCode |-> Str(<<" ","e","n","g","l"," ">>),
     SndrCourseNumber |-> Str(<<"2","x","x">>)]

\* An incomplete historical row: no course number.
PartialRow ==
    [Id |-> 4, SndrSubjectCode |-> Str(<<"M","A","T","H">>),
     SndrCourseNumber |-> NULL]

ReferenceTable == <<MathRow, EnglRow>>

LineMath == <<"-"," ","M","A","T","H"," ","1","0","1",":"," ","A","+">>

LineEnglW == <<"-"," ","E","N","G","L"," ","2","X","X",":"," ","W">>

LineProse == <<"S","t","u","d","e","n","t"," ","p","e","r","f","o","r","m","e","d",
               " ","w","e","l","l"," ","o","v","e","r","a","l","l",".">>

\* "- MATH 101: A+\n- ENGL 2XX: W\nStudent performed well overall."
ScenarioSummary == join(<<LineMath, LineEnglW, LineProse>>, <<"\n">>)

\* response.text of a GenerateContentResponse: string | undefined.
Responses == {Str(ScenarioSummary), Str(<<>>), UNDEFINED}

(* ---------------------------------------------------------------------- *)
(* State                                                                   *)
(* ---------------------------------------------------------------------- *)
VARIABLES
    variant,                    \* "manual" (lines 24-217) or "auto" (244-468)
    ai,                         \* the GoogleGenAI client, or NULL
    greetingMessage,
    greetingPending,            \* generateContentStream not yet settled
    error,
    pdfData,
    fileStatus,
    pdfProcessingStatus,
    extractedText,
    summaryText,
    summaryStatus,
    isSummarizing,
    transcriptValidityMessage,
    selections,                 \* number of handleFileChange calls so far
    selected,                   \* the file of the latest handleFileChange
    reads,                      \* FileReader reads in flight
    extractions,                \* extractTextFromPdf calls at their await
    issued,                     \* number of generateContent calls so far
    pending,                    \* generateContent calls in flight
    settled,                    \* generateContent calls that have returned
    effectPending,              \* the auto-summarize effect is due to run
    tableState,                 \* reference data loader: loading/loaded/failed
    table,
    matchResult

reactState == <<error, pdfData, fileStatus, pdfProcessingStatus, extractedText,
                summaryText, summaryStatus, isSummarizing,
                transcriptValidityMessage>>

fixed == <<variant, ai>>

greeting == <<greetingMessage, greetingPending>>

files == <<selections, selected, reads, extractions>>

calls == <<issued, pending, settled>>

core == <<tableState, table, matchResult>>

vars == <<variant, ai, greetingMessage, greetingPending, error, pdfData,
          fileStatus, pdfProcessingStatus, extractedText, summaryText,
          summaryStatus, isSummarizing, transcriptValidityMessage,
          selections, selected, reads, extractions, issued, pending, settled,
          effectPending, tableState, table, matchResult>>

Client == [k |-> "GoogleGenAI"]

GreetingFallback == Str("Oops! I couldn't connect. Please check your setup.")

\* State after the first render and the mount effect (initializeApp up to
\* its first await).
Init ==
    /\ variant \in {"manual", "auto"}
    /\ ai \in {NULL, Client}
    /\ greetingMessage = IF ai = NULL THEN GreetingFallback ELSE Str("")
    /\ greetingPending = (ai # NULL)
    /\ error = IF ai = NULL
               THEN Str("Failed to initialize AI. API key might be missing or invalid.")
               ELSE NULL
    /\ pdfData = NULL
    /\ fileStatus = NULL
    /\ pdfProcessingStatus = NULL
    /\ extractedText = NULL
    /\ summaryText = NULL
    /\ summaryStatus = NULL
    /\ isSummarizing = FALSE
    /\ transcriptValidityMessage = NULL
    /\ selections = 0
    /\ selected = NoFile
    /\ reads = {}
    /\ extractions = {}
    /\ issued = 0
    /\ pending = {}
    /\ settled = {}
    /\ effectPending = FALSE
    /\ tableState = "loading"
    /\ table = <<>>
    /\ matchResult = Uncomputed

\* The dependency list of the auto-summarize effect (line 417); the
\* identity of handleSummarize changes with its own dependencies (line 408).
effectDeps == <<extractedText, transcriptValidityMessage, isSummarizing,
                summaryText, error>>

\* What every step of App ends with: React renders the new state and the
\* effect is scheduled when one of its dependencies changed.
Commit ==
    effectPending' = (variant = "auto" /\ effectDeps' # effectDeps)

\* No event is handled between a render and the effects of that render.
Idle == ~effectPending

(* ---------------------------------------------------------------------- *)
(* Greeting (initializeApp)                                               *)
(* ---------------------------------------------------------------------- *)
GreetingResolves ==
    /\ Idle
    /\ greetingPending
    /\ greetingPending' = FALSE
    /\ greetingMessage' = Str("Hello")
    /\ UNCHANGED <<fixed, reactState, files, calls, core>>
    /\ Commit

GreetingRejects ==
    /\ Idle
    /\ greetingPending
    /\ greetingPending' = FALSE
    /\ greetingMessage' = GreetingFallback
    /\ error' = Str("Failed to load initial greeting. API key or network issue?")
    /\ UNCHANGED <<fixed, pdfData, fileStatus, pdfProcessingStatus,
                   extractedText, summaryText, summaryStatus, isSummarizing,
                   transcriptValidityMessage, files, calls, core>>
    /\ Commit

(* ---------------------------------------------------------------------- *)
(* File selection and reading                                             *)
(* ---------------------------------------------------------------------- *)
LoadingFile(name) == Str(<<"Loading file: ", name, "...">>)

FileLoaded(name) == Str(<<"File '", name, "' loaded successfully.">>)

\* A type check that lets every file through.
fileTypeRefusedNever(file) == FALSE

\* file.type !== "application/pdf" (lines 106 and 344).
fileTypeRefused(file) == file.type # PdfType

\* handleFileChange: setError(null), resetPdfStates(), then the type check
\* and the start of the read.
HandleFileChange(file) ==
    /\ Idle
    /\ selections < MaxUploads
    /\ selections' = selections + 1
    /\ selected' = file
    /\ pdfData' = NULL
    /\ pdfProcessingStatus' = NULL
    /\ extractedText' = NULL
    /\ summaryText' = NULL
    /\ summaryStatus' = NULL
    /\ isSummarizing' = FALSE
    /\ transcriptValidityMessage' = NULL
    /\ IF file = NoFile
       THEN /\ error' = NULL
            /\ fileStatus' = NULL
            /\ reads' = reads
       ELSE IF fileTypeRefused(file)
       THEN /\ error' = Str("Invalid file type. Please upload a PDF file.")
            /\ fileStatus' = NULL
            /\ reads' = reads
       ELSE /\ error' = NULL
            /\ fileStatus' = LoadingFile(file.name)
            /\ reads' = reads \cup {[cycle |-> selections + 1, file |-> file]}
    /\ UNCHANGED <<fixed, greeting, extractions, calls, core>>
    /\ Commit

\* reader.onload with an ArrayBuffer: the state updates of the handler and
\* of extractTextFromPdf up to its first await.
ReaderOnload(op) ==
    /\ Idle
    /\ op \in reads
    /\ reads' = reads \ {op}
    /\ extractions' = extractions \cup {op}
    /\ pdfData' = Str(op.file.name)
    /\ fileStatus' = FileLoaded(op.file.name)
    /\ pdfProcessingStatus' = Str("Extracting text from PDF...")
    /\ extractedText' = NULL
    /\ summaryText' = NULL
    /\ summaryStatus' = NULL
    /\ transcriptValidityMessage' = NULL
    /\ UNCHANGED <<fixed, greeting, error, isSummarizing, selections,
                   selected, calls, core>>
    /\ Commit

\* reader.onload whose result is not an ArrayBuffer.
ReaderOnloadNoBuffer(op) ==
    /\ Idle
    /\ op \in reads
    /\ reads' = reads \ {op}
    /\ error' = Str("Error reading file: Could not get ArrayBuffer.")
    /\ fileStatus' = Str(<<"Error loading file.">>)
    /\ UNCHANGED <<fixed, greeting, pdfData, pdfProcessingStatus,
                   extractedText, summaryText, summaryStatus, isSummarizing,
                   transcriptValidityMessage, selections, selected,
                   extractions, calls, core>>
    /\ Commit

\* reader.onerror
ReaderOnerror(op) ==
    /\ Idle
    /\ op \in reads
    /\ reads' = reads \ {op}
    /\ error' = Str("Error reading file.")
    /\ fileStatus' = Str(<<"Error loading file.">>)
    /\ UNCHANGED <<fixed, greeting, pdfData, pdfProcessingStatus,
                   extractedText, summaryText, summaryStatus, isSummarizing,
                   transcriptValidityMessage, selections, selected,
                   extractions, calls, core>>
    /\ Commit

(* ---------------------------------------------------------------------- *)
(* Text extraction                                                        *)
(* ---------------------------------------------------------------------- *)
ValidityWarning ==
    Str("Warning: The uploaded document does not appear to be a transcript.")

\* A catch block that leaves the text cell as it finds it.
catchExtractedTextKept(previous) == previous

\* setExtractedText(null) of the catch block of extractTextFromPdf.
catchExtractedText(previous) == NULL

\* extractTextFromPdf after its awaits: the text of all pages, or the catch
\* block when pdf.js rejects.
ExtractCompletes(op) ==
    /\ Idle
    /\ op \in extractions
    /\ extractions' = extractions \ {op}
    /\ LET trimmedText == trim(fullText(op.file.pages))
       IN  IF op.file.corrupt
           THEN /\ error' = Str("Failed to extract text from the PDF. The file might be corrupted or password-protected.")
                /\ pdfProcessingStatus' = Str("Error extracting text.")
                /\ extractedText' = catchExtractedText(extractedText)
                /\ transcriptValidityMessage' = NULL
           ELSE /\ error' = error
                /\ IF variant = "manual"
                   THEN /\ extractedText' = Str(trimmedText)
                        /\ pdfProcessingStatus' = Str("Text extracted successfully!")
                        /\ transcriptValidityMessage' = transcriptValidityMessage
                   ELSE IF trimmedText # <<>>
                   THEN /\ extractedText' = Str(trimmedText)
                        /\ transcriptValidityMessage' =
                              IF ~includes(toLowerCase(trimmedText), Transcript)
                              THEN ValidityWarning
                              ELSE NULL
                        /\ pdfProcessingStatus' = NULL
                   ELSE /\ extractedText' = NULL
                        /\ pdfProcessingStatus' =
                              Str("No text could be extracted from the PDF.")
                        /\ transcriptValidityMessage' = NULL
    /\ UNCHANGED <<fixed, greeting, pdfData, fileStatus, summaryText,
                   summaryStatus, isSummarizing, selections, selected, reads,
                   calls, core>>
    /\ Commit

(* ---------------------------------------------------------------------- *)
(* Summarization                                                          *)
(* ---------------------------------------------------------------------- *)
\* A guard that forgets the client check.
summarizeRefusedNoClientCheck(text, busy, client) ==
    ~Truthy(text) \/ busy

\* The early return of handleSummarize (lines 138 and 376).
summarizeRefused(text, busy, client) ==
    ~Truthy(text) \/ busy \/ client = NULL

\* An effect that does not look at the validity message.
autoSummarizeDueAnyDocument(text, validity, busy, summary, client) ==
    /\ Truthy(text)
    /\ ~busy
    /\ ~Truthy(summary)
    /\ client # NULL

\* The condition of the auto-summarize effect (line 414).
autoSummarizeDue(text, validity, busy, summary, client) ==
    /\ Truthy(text)
    /\ validity = NULL
    /\ ~busy
    /\ ~Truthy(summary)
    /\ client # NULL

\* handleSummarize up to its await: the early return, or the state updates
\* and the generateContent call with the text of the current render.
handleSummarize ==
    IF summarizeRefused(extractedText, isSummarizing, ai)
    THEN /\ error' = IF ai = NULL /\ (variant = "manual" \/ ~Shown(error))
                     THEN Str("AI client not initialized. Cannot summarize.")
                     ELSE error
         /\ UNCHANGED <<summaryText, summaryStatus, isSummarizing, calls>>
    ELSE /\ issued < MaxRequests
         /\ isSummarizing' = TRUE
         /\ summaryStatus' = Str("Generating summary...")
         /\ summaryText' = NULL
         /\ error' = NULL
         /\ issued' = issued + 1
         /\ pending' = pending \cup {[id       |-> issued + 1,
                                      cycle    |-> selections,
                                      contents |-> extractedText.v]}
         /\ settled' = settled

\* A click on the "Summarize Transcript" button of the manual variant, which
\* is rendered when extractedText is truthy and enabled unless summarizing.
ClickSummarize ==
    /\ Idle
    /\ variant = "manual"
    /\ Truthy(extractedText)
    /\ ~isSummarizing
    /\ handleSummarize
    /\ UNCHANGED <<fixed, greeting, pdfData, fileStatus, pdfProcessingStatus,
                   extractedText, transcriptValidityMessage, files, core>>
    /\ Commit

\* The auto-summarize effect, run after a render in which one of its
\* dependencies changed.
AutoSummarizeEffect ==
    /\ effectPending
    /\ IF autoSummarizeDue(extractedText, transcriptValidityMessage,
                           isSummarizing, summaryText, ai)
       THEN handleSummarize
       ELSE UNCHANGED <<error, summaryText, summaryStatus, isSummarizing,
                        calls>>
    /\ UNCHANGED <<fixed, greeting, pdfData, fileStatus, pdfProcessingStatus,
                   extractedText, transcriptValidityMessage, files, core>>
    /\ Commit

\* A handler without the finally block.
finallyIsSummarizingKept(previous) == previous

\* setIsSummarizing(false) of the finally block of handleSummarize.
finallyIsSummarizing(previous) == FALSE

Outcome(call, how) ==
    [cycle |-> call.cycle, contents |-> call.contents, outcome |-> how]

\* generateContent resolves: setSummaryText(response.text), then finally.
RequestResolves(call, text) ==
    /\ Idle
    /\ call \in pending
    /\ pending' = pending \ {call}
    /\ settled' = settled \cup {Outcome(call, "resolved")}
    /\ summaryText' = text
    /\ summaryStatus' = Str("Summary complete!")
    /\ isSummarizing' = finallyIsSummarizing(isSummarizing)
    /\ UNCHANGED <<fixed, greeting, error, pdfData, fileStatus,
                   pdfProcessingStatus, extractedText,
                   transcriptValidityMessage, files, issued, core>>
    /\ Commit

\* generateContent rejects: the catch block, then finally.
RequestRejects(call) ==
    /\ Idle
    /\ call \in pending
    /\ pending' = pending \ {call}
    /\ settled' = settled \cup {Outcome(call, "rejected")}
    /\ error' = Str("Failed to generate summary. Please try again.")
    /\ summaryStatus' = Str("Error generating summary.")
    /\ summaryText' = NULL
    /\ isSummarizing' = finallyIsSummarizing(isSummarizing)
    /\ UNCHANGED <<fixed, greeting, pdfData, fileStatus, pdfProcessingStatus,
                   extractedText, transcriptValidityMessage, files, issued,
                   core>>
    /\ Commit

(* ---------------------------------------------------------------------- *)
(* Specification of the application                                       *)
(* ---------------------------------------------------------------------- *)
Next ==
    \/ GreetingResolves
    \/ GreetingRejects
    \/ \E file \in Files : HandleFileChange(file)
    \/ \E op \in reads : ReaderOnload(op)
    \/ \E op \in reads : ReaderOnloadNoBuffer(op)
    \/ \E op \in reads : ReaderOnerror(op)
    \/ \E op \in extractions : ExtractCompletes(op)
    \/ ClickSummarize
    \/ AutoSummarizeEffect
    \/ \E call \in pending : \E text \in Responses : RequestResolves(call, text)
    \/ \E call \in pending : RequestRejects(call)

Spec == Init /\ [][Next]_vars

(* ---------------------------------------------------------------------- *)
(* Specification of the matching core (sections 4 to 7)                   *)
(* ---------------------------------------------------------------------- *)
SummaryLines ==
    {LineMath, LineEnglW, LineProse,
     <<" ","*"," ","e","n","g","l"," ","2","x","x",":","7","5","%">>,
     <<"-"," ","M","A","T","H"," ","1","0","1",":"," ","a">>}

RECURSIVE SeqsUpTo(_, _)
\* All sequences over S of length at most n.
SeqsUpTo(S, n) ==
    IF n = 0 THEN {<<>>}
    ELSE LET shorter == SeqsUpTo(S, n - 1)
         IN  shorter \cup {Append(q, x) : q \in shorter, x \in S}

\* The summary texts handed to the core: up to MaxLines lines joined by
\* line feeds.
SummaryInputs == {join(ls, <<"\n">>) : ls \in SeqsUpTo(SummaryLines, MaxLines)}

Tables ==
    {<<>>, ReferenceTable, <<EnglRowPadded, PartialRow, MathRow, EnglRow>>}

CoreInit ==
    /\ Init
    /\ variant = "auto"
    /\ ai = Client

\* What every step of the core ends with: the matching result observed by
\* the rendering layer is derived from the two inputs.
Derive ==
    matchResult' = MatchingResult(summaryText', tableState', table')

app == <<variant, ai, greetingMessage, greetingPending, error, pdfData,
         fileStatus, pdfProcessingStatus, extractedText, summaryStatus,
         isSummarizing, transcriptValidityMessage, selections, selected,
         reads, extractions, issued, pending, settled, effectPending>>

\* The summarization service delivers a summary text.
SummaryArrives(text) ==
    /\ summaryText' = Str(text)
    /\ UNCHANGED <<app, tableState, table>>
    /\ Derive

\* The upstream summary is cleared (a new extraction cycle begins).
SummaryCleared ==
    /\ summaryText # NULL
    /\ summaryText' = NULL
    /\ UNCHANGED <<app, tableState, table>>
    /\ Derive

\* The reference data loader delivers the table.
TableLoads(rows) ==
    /\ tableState = "loading"
    /\ tableState' = "loaded"
    /\ table' = rows
    /\ UNCHANGED <<app, summaryText>>
    /\ Derive

\* The reference data loader fails.
TableFails ==
    /\ tableState = "loading"
    /\ tableState' = "failed"
    /\ UNCHANGED <<app, summaryText, table>>
    /\ Derive

CoreNext ==
    \/ \E text \in SummaryInputs : SummaryArrives(text)
    \/ SummaryCleared
    \/ \E rows \in Tables : TableLoads(rows)
    \/ TableFails

CoreSpec == CoreInit /\ [][CoreNext]_vars

(* ---------------------------------------------------------------------- *)
(* Properties                                                             *)
(* ---------------------------------------------------------------------- *)
\* A generateContent call of an earlier cycle returns in this step.
StaleCallSettles ==
    \E call \in pending : call.cycle < selections /\ call \notin pending'

\* C1: in the auto-summarize App, when a summarization request issued before
\* the latest file selection resolves or rejects, it changes none of
\* summaryText, summaryStatus, error and isSummarizing.
C1_StaleResultDiscarded ==
    [][(variant = "auto" /\ StaleCallSettles)
         => UNCHANGED <<summaryText, summaryStatus, error, isSummarizing>>]_vars

\* C2: in the auto-summarize App, a request is never issued for a text for
\* which a request of the same cycle (no file selected since) was rejected.
C2_NoRetryAfterRejection ==
    [][variant = "auto"
         => \A call \in pending' \ pending :
               Outcome(call, "rejected") \notin settled]_vars

\* C3: whenever the summary text is present and the table load has failed,
\* the matching result is Blocked and is not an empty match list.
C3_FailedTableIsBlocked ==
    (Truthy(summaryText) /\ tableState = "failed")
        => (matchResult = Blocked /\ matchResult # Computed(<<>>))

C3_Witness ==
    /\ Truthy(summaryText)
    /\ parsePassedCourses(summaryText.v) # <<>>
    /\ tableState = "failed"
    /\ matchResult = Blocked

\* C4: the join has been run (the result is Computed) only in states where
\* the summary text is present and the table is loaded; never while the
\* table is loading or failed or the summary is absent.
C4_JoinNeedsBothInputs ==
    matchResult.kind = "Computed"
        => (Truthy(summaryText) /\ tableState = "loaded")

C4_Witness ==
    /\ matchResult.kind = "Computed"
    /\ matchResult.rows # <<>>
    /\ Truthy(summaryText)
    /\ tableState = "loaded"

\* C5: when the AI client is null, summaryText is null and no
\* generateContent request has been issued, in both variants and after any
\* uploads and clicks.
C5_NoClientNoSummary ==
    ai = NULL => (summaryText = NULL /\ issued = 0 /\ pending = {})

C5_Witness ==
    /\ ai = NULL
    /\ variant = "manual"
    /\ Truthy(extractedText)
    /\ error = Str("AI client not initialized. Cannot summarize.")
    /\ summaryText = NULL
    /\ issued = 0

\* C6: in the auto-summarize App with a null AI client, once the text of a
\* valid transcript is extracted and displayed, an error message is shown.
C6_NoClientErrorShown ==
    (/\ variant = "auto"
     /\ ai = NULL
     /\ ~effectPending
     /\ Truthy(extractedText)
     /\ transcriptValidityMessage = NULL)
        => Shown(error)

\* C7: the step that handles a rejected summarization request leaves
\* summaryText null, summaryStatus 'Error generating summary.', error
\* non-null and isSummarizing false.
C7_RejectionIsStatus ==
    [][(\E call \in pending : RequestRejects(call))
         => /\ summaryText' = NULL
            /\ summaryStatus' = Str("Error generating summary.")
            /\ Shown(error')
            /\ ~isSummarizing']_vars

C7_Witness ==
    /\ \E o \in settled : o.outcome = "rejected"
    /\ summaryText = NULL
    /\ summaryStatus = Str("Error generating summary.")
    /\ error = Str("Failed to generate summary. Please try again.")
    /\ ~isSummarizing

\* C8: the step in which text extraction throws leaves extractedText null
\* and pdfProcessingStatus 'Error extracting text.', and no summarization
\* request is issued while extractedText is null.
C8_ExtractionFailureTerminal ==
    [][/\ (\E op \in extractions : op.file.corrupt /\ ExtractCompletes(op))
            => /\ extractedText' = NULL
               /\ pdfProcessingStatus' = Str("Error extracting text.")
       /\ extractedText = NULL => issued' = issued]_vars

C8_Witness ==
    /\ selected = Corrupt
    /\ extractions = {}
    /\ reads = {}
    /\ ~effectPending
    /\ extractedText = NULL
    /\ pdfProcessingStatus = Str("Error extracting text.")
    /\ issued = 0

\* C9: in the auto-summarize App a present summaryText becomes null only in
\* a step that handles a file selection or begins an extraction.
C9_ClearedOnlyByNewCycle ==
    [][(variant = "auto" /\ Truthy(summaryText) /\ summaryText' = NULL)
         => \/ selections' # selections
            \/ extractions' # extractions /\ extractions \subseteq extractions']_vars

\* C10: the line '- ENGL 2XX: W' yields no ParsedCourse, and for the summary
\* '- MATH 101: A+' / '- ENGL 2XX: W' / prose with a table of one MATH 101
\* row and one ENGL 2XX row the matched sequence is exactly the MATH row.
C10_WithdrawalNotMatched ==
    (/\ summaryText = Str(ScenarioSummary)
     /\ tableState = "loaded"
     /\ table = ReferenceTable)
        => /\ parseLine(LineEnglW) = <<>>
           /\ matchResult = Computed(<<MathRow>>)

RECURSIVE Flatten(_)
\* The concatenation of a sequence of sequences.
Flatten(blocks) ==
    IF blocks = <<>> THEN <<>> ELSE blocks[1] \o Flatten(Tail(blocks))

\* The rows of a table that carry both sender fields and whose fields equal
\* those of the course once both sides are trimmed and put in lower case.
AgreementsOf(course, rows) ==
    SelectSeq(rows,
              LAMBDA r : /\ r.SndrSubjectCode.k = "str"
                         /\ r.SndrCourseNumber.k = "str"
                         /\ toLowerCase(trim(r.SndrSubjectCode.v))
                              = toLowerCase(trim(course.subject))
                         /\ toLowerCase(trim(r.SndrCourseNumber.v))
                              = toLowerCase(trim(course.number)))

\* The parsed courses of the summary the core currently holds.
CurrentCourses == parsePassedCourses(summaryText.v)

\* C11: a computed matching result is the concatenation, in parsed-course
\* order, of each course's matching agreements in table order: all matches
\* of an earlier parsed course precede all matches of a later one.
C11_OrderPreserving ==
    matchResult.kind = "Computed"
        => matchResult.rows =
             Flatten([i \in 1..Len(CurrentCourses)
                        |-> AgreementsOf(CurrentCourses[i], table)])

\* Two parsed courses, in the order opposite to that of their rows in the
\* table, both matched.
C11_Witness ==
    /\ matchResult.kind = "Computed"
    /\ table = ReferenceTable
    /\ Len(CurrentCourses) >= 2
    /\ matchResult.rows = <<EnglRow, MathRow>>

\* C12: with an empty parsed-course sequence and a loaded table, whatever
\* its rows, the result is the computed empty sequence, which is not the
\* Uncomputed state.
C12_NoCoursesComputedEmpty ==
    (/\ Truthy(summaryText)
     /\ tableState = "loaded"
     /\ CurrentCourses = <<>>)
        => /\ matchResult = Computed(<<>>)
           /\ matchResult # Uncomputed

C12_Witness ==
    /\ summaryText = Str(LineProse)
    /\ tableState = "loaded"
    /\ table # <<>>
    /\ matchResult = Computed(<<>>)

\* C13: a computed result holds exactly the agreements whose sender subject
\* and course number equal those of some parsed course after trimming and
\* case normalization of both sides; the row with subject ' engl ' is
\* matched by a parsed course with subject 'ENGL'.
C13_NormalizedMatch ==
    matchResult.kind = "Computed"
        => /\ Range(matchResult.rows) =
                {table[i] : i \in {j \in 1..Len(table) :
                    \E c \in Range(CurrentCourses) :
                        AgreementsOf(c, <<table[j]>>) # <<>>}}
           /\ (/\ EnglRowPadded \in Range(table)
               /\ \E c \in Range(CurrentCourses) :
                     /\ c.subject = <<"E","N","G","L">>
                     /\ c.number = <<"2","X","X">>)
                 => EnglRowPadded \in Range(matchResult.rows)

C13_Witness ==
    /\ matchResult.kind = "Computed"
    /\ \E c \in Range(CurrentCourses) : c.subject = <<"E","N","G","L">>
    /\ EnglRowPadded \in Range(matchResult.rows)
    /\ PartialRow \in Range(table)
    /\ PartialRow \notin Range(matchResult.rows)

\* C14: in the auto-summarize App at most one summarization request is in
\* flight in every reachable state.
C14_OneRequestInFlight ==
    variant = "auto" => Cardinality(pending) <= 1

\* The text that pdf.js yields for a file, trimmed.
TextOf(file) == trim(fullText(file.pages))

\* The text is non-empty and contains 'transcript' in any case.
IsTranscriptText(text) ==
    text # <<>> /\ includes(toLowerCase(text), Transcript)

\* Every request issued in this step carries a transcript text.
IssuedOnlyForTranscript ==
    \A call \in pending' \ pending : IsTranscriptText(call.contents)

\* C15 as stated: in the auto-summarize App a request is issued only for a
\* non-empty text containing 'transcript'; an extraction that yields any
\* other text sets the warning.
C15_WarningForAnyOtherDocument ==
    [][variant = "auto"
         => /\ IssuedOnlyForTranscript
            /\ \A op \in extractions :
                  (/\ ExtractCompletes(op)
                   /\ ~op.file.corrupt
                   /\ ~IsTranscriptText(TextOf(op.file)))
                      => transcriptValidityMessage' = ValidityWarning]_vars

\* C15 as amended: in the auto-summarize App a request is issued only for a
\* non-empty text containing 'transcript'; an extraction that yields a
\* non-empty text without the word sets the warning, and one that yields no
\* text sets the status 'No text could be extracted from the PDF.' with no
\* warning and no extracted text.
C15_RequestOnlyForTranscript ==
    [][variant = "auto"
         => /\ IssuedOnlyForTranscript
            /\ \A op \in extractions :
                  (ExtractCompletes(op) /\ ~op.file.corrupt)
                      => /\ (TextOf(op.file) # <<>>
                               /\ ~IsTranscriptText(TextOf(op.file)))
                              => /\ transcriptValidityMessage' = ValidityWarning
                                 /\ extractedText' = Str(TextOf(op.file))
                         /\ TextOf(op.file) = <<>>
                              => /\ transcriptValidityMessage' = NULL
                                 /\ extractedText' = NULL
                                 /\ pdfProcessingStatus' =
                                      Str("No text could be extracted from the PDF.")]_vars

C15_Witness ==
    /\ variant = "auto"
    /\ ai # NULL
    /\ selected = Memo
    /\ ~effectPending
    /\ extractedText = Str(TextOf(Memo))
    /\ transcriptValidityMessage = ValidityWarning
    /\ issued = 0

\* Every callback of the file and summarization pipeline has run.
Quiescent ==
    /\ reads = {}
    /\ extractions = {}
    /\ pending = {}
    /\ ~effectPending

\* C16: in the auto-summarize App with an AI client, once every callback has
\* run and every request has returned successfully, a displayed valid
\* transcript text has had a request of the current cycle built from it and
\* a summary is present.
C16_TranscriptSummarized ==
    (/\ variant = "auto"
     /\ ai # NULL
     /\ Quiescent
     /\ issued < MaxRequests
     /\ \A o \in settled : o.outcome = "resolved"
     /\ Truthy(extractedText)
     /\ transcriptValidityMessage = NULL)
        => /\ Truthy(summaryText)
           /\ \E o \in settled :
                 o.cycle = selections /\ o.contents = extractedText.v

\* C17: after two PDF files were selected in succession, once all callbacks
\* have completed, the extracted text and the 'loaded' file status are those
\* of the file selected last.
C17_LatestFileWins ==
    (selections = 2 /\ selected.type = PdfType /\ Quiescent)
        => /\ extractedText # NULL
                => extractedText = Str(TextOf(selected))
           /\ fileStatus \in {FileLoaded(f.name) : f \in Files}
                => fileStatus = FileLoaded(selected.name)

\* C18: in the auto-summarize App, once a request of the current cycle has
\* succeeded, no step issues a further request (the cycle changes only by a
\* new file selection).
C18_QuiescentAfterSuccess ==
    [][(/\ variant = "auto"
        /\ \E o \in settled : o.cycle = selections /\ o.outcome = "resolved")
         => issued' = issued]_vars

\* C19: whenever summaryStatus is 'Summary complete!', summaryText is a
\* non-empty string.
C19_CompleteMeansSummary ==
    summaryStatus = Str("Summary complete!") => Truthy(summaryText)

\* C20: the step that handles the selection of a file whose type is not
\* 'application/pdf' sets the 'Invalid file type' error, leaves pdfData,
\* fileStatus, pdfProcessingStatus, extractedText, summaryText and
\* summaryStatus null and isSummarizing false, and starts no file read,
\* extraction or summarization.
C20_NonPdfRefused ==
    [][/\ \A file \in Files :
          (file # NoFile /\ file.type # PdfType /\ HandleFileChange(file))
            => /\ error' = Str("Invalid file type. Please upload a PDF file.")
               /\ pdfData' = NULL
               /\ fileStatus' = NULL
               /\ pdfProcessingStatus' = NULL
               /\ extractedText' = NULL
               /\ summaryText' = NULL
               /\ summaryStatus' = NULL
               /\ ~isSummarizing'
               /\ reads' = reads
               /\ extractions' = extractions
               /\ issued' = issued
               /\ pending' = pending
       /\ (/\ error = Str("Invalid file type. Please upload a PDF file.")
           /\ extractedText = NULL
           /\ effectPending)
            => issued' = issued]_vars

\* A non-PDF file selected while the previous file was being summarized.
C20_Witness ==
    /\ selected = Notes
    /\ selections = 2
    /\ issued > 0
    /\ error = Str("Invalid file type. Please upload a PDF file.")
    /\ fileStatus = NULL
    /\ extractedText = NULL
    /\ ~isSummarizing

====
